---------------------------- MODULE Spec2Model ----------------------------
(***************************************************************************)
(* A model of OpenSSL/crypto/x509ext.c: the X509Extension object of        *)
(* pyOpenSSL.  The state is the heap of Python extension objects, the heap *)
(* of encoded X509_EXTENSION structures they point to, the interpreter's   *)
(* error indicator and a record of the last call with what it returned.    *)
(*                                                                         *)
(* Characters are their ASCII codes and a C string is the sequence of its  *)
(* bytes without the terminating NUL; a byte range (ASN1_STRING) is a      *)
(* sequence that may hold the byte 0 anywhere.                             *)
(***************************************************************************)
EXTENDS Integers, Sequences, FiniteSets, TLC

VARIABLES objs, structs, wildFree, pyerr, newCall, strCall, critCall

vars == <<objs, structs, wildFree, pyerr, newCall, strCall, critCall>>

---------------------------------------------------------------------------
(* Bounds of the model *)

\* Python extension objects ever allocated in one behaviour
MaxObjs == 2
\* general-name entries in a certificate's subjectAltName payload
MaxNames == 2
\* writes to the memory BIO that fail during one crypto_X509Extension_str
MaxFaults == 1

---------------------------------------------------------------------------
(* Pointers *)

\* the null pointer
NULL == 0
\* the value of a pointer field that was never assigned
UNINIT == -1

ObjIds == 1..MaxObjs
\* structure 1 belongs to the certificate; object o's own structure is o + 1
StructOf(o) == o + 1
CertStruct == StructOf(0)
StructIds == 1..(MaxObjs + 1)

---------------------------------------------------------------------------
(* C strings of the source *)

\* "critical,"
S_critical == <<99, 114, 105, 116, 105, 99, 97, 108, 44>>
\* "email:"
S_email == <<101, 109, 97, 105, 108, 58>>
\* "DNS:"
S_DNS == <<68, 78, 83, 58>>
\* "URI:"
S_URI == <<85, 82, 73, 58>>
\* ", "
S_sep == <<44, 32>>

\* strlen: the bytes before the first NUL; a C string value holds no NUL
strlen(s) == Len(s)

\* the bytes of a byte range up to its first NUL: what a reader that
\* relies on NUL termination sees
RECURSIVE UpToNul(_)
UpToNul(d) ==
    IF d = <<>> \/ Head(d) = 0 THEN <<>> ELSE <<Head(d)>> \o UpToNul(Tail(d))

\* a freshly malloc'ed buffer: size cells of indeterminate content (-1)
FreshBuffer(size) == [mem |-> [i \in 1..size |-> -1], overflow |-> FALSE]

\* strcpy(buf + off, src): the bytes of src and the terminating NUL; a write
\* past the end of the buffer is recorded as an overflow
strcpy(buf, off, src) ==
    LET bytes == src \o <<0>>
        size  == Len(buf.mem)
    IN [mem |-> [i \in 1..size |->
                    IF i > off /\ i <= off + Len(bytes)
                    THEN bytes[i - off] ELSE buf.mem[i]],
        overflow |-> buf.overflow \/ off + Len(bytes) > size]

\* the C string a char* to the start of the buffer denotes
RECURSIVE ReadFrom(_, _)
ReadFrom(mem, i) ==
    IF i > Len(mem) \/ mem[i] = 0 THEN <<>>
    ELSE <<mem[i]>> \o ReadFrom(mem, i + 1)

CString(buf) == ReadFrom(buf.mem, 1)

HasPrefix(s, p) == Len(s) >= Len(p) /\ SubSeq(s, 1, Len(p)) = p

DropFirst(s, n) == SubSeq(s, n + 1, Len(s))

---------------------------------------------------------------------------
(* The cryptographic library, as x509ext.c uses it *)

NID_undef == "NID_undef"
NID_basic_constraints == "NID_basic_constraints"
NID_subject_alt_name == "NID_subject_alt_name"

GEN_EMAIL == "GEN_EMAIL"
GEN_DNS == "GEN_DNS"
GEN_URI == "GEN_URI"
GEN_DIRNAME == "GEN_DIRNAME"

\* OBJ_sn2nid: the registry lookup of a type name
OBJ_sn2nid(type_name) ==
    CASE type_name = "basicConstraints" -> NID_basic_constraints
      [] type_name = "subjectAltName" -> NID_subject_alt_name
      [] OTHER -> NID_undef

\* X509V3_EXT_get: the value-syntax descriptor registered for an OID
HasMethod(nid) == nid \in {NID_basic_constraints, NID_subject_alt_name}

\* v3_check_critical: the interpreter takes a leading "critical," off the
\* value, with the white space after it, and sets the critical bit
RECURSIVE SkipSpaces(_)
SkipSpaces(s) == IF s # <<>> /\ Head(s) = 32 THEN SkipSpaces(Tail(s)) ELSE s

v3_check_critical(v) == HasPrefix(v, S_critical)

v3_value(v) ==
    IF v3_check_critical(v) THEN SkipSpaces(DropFirst(v, Len(S_critical))) ELSE v

\* "CA:TRUE", the one basicConstraints value of the model
S_CA_TRUE == <<67, 65, 58, 84, 82, 85, 69>>

\* X509V3_EXT_nconf(NULL, &ctx, type_name, value): the encoded structure, or
\* no structure when the type name is unknown or the value, with its
\* critical marker taken off, does not parse
X509V3_EXT_nconf(type_name, value) ==
    LET nid  == OBJ_sn2nid(type_name)
        crit == IF v3_check_critical(value) THEN 1 ELSE 0
        val  == v3_value(value)
        none == [ok |-> FALSE, nid |-> NID_undef, critical |-> 0, names |-> <<>>]
    IN CASE nid = NID_basic_constraints /\ val = S_CA_TRUE ->
              [ok |-> TRUE, nid |-> nid, critical |-> crit, names |-> <<>>]
         [] OTHER -> none

\* X509_EXTENSION_get_critical
X509_EXTENSION_get_critical(ext) == IF ext.critical > 0 THEN 1 ELSE 0

---------------------------------------------------------------------------
(* The heap of encoded structures *)

NoStruct ==
    [state |-> "unalloc", owner |-> "none", nid |-> NID_undef, critical |-> 0,
     decodes |-> FALSE, names |-> <<>>, frees |-> 0]

\* X509_EXTENSION_free(p): a no-op on NULL; releasing a pointer that is not
\* a live structure (never assigned, or released before) is recorded
X509_EXTENSION_free(heap, p) ==
    IF p = NULL THEN heap
    ELSE IF p \notin StructIds THEN [heap EXCEPT !.wild = TRUE]
    ELSE [heap EXCEPT
            !.structs[p] = [NoStruct EXCEPT
                              !.state = "freed",
                              !.owner = heap.structs[p].owner,
                              !.frees = heap.structs[p].frees + 1],
            !.wild = heap.wild \/ heap.structs[p].state # "live"]

\* a dealloc that does not look at the flag
dealloc_always_frees(self, heap) ==
    X509_EXTENSION_free(heap, self.x509_extension)

\* crypto_X509Extension_dealloc, run when the last reference is dropped
crypto_X509Extension_dealloc(self, heap) ==
    IF self.dealloc # 0
    THEN X509_EXTENSION_free(heap, self.x509_extension)
    ELSE heap

NoObj == [state |-> "none", x509_extension |-> NULL, dealloc |-> 0]
DeletedObj == [state |-> "deleted", x509_extension |-> NULL, dealloc |-> 0]

Heap == [structs |-> structs, wild |-> wildFree]

\* the next object PyObject_New hands out
FreshObj == CHOOSE o \in ObjIds : objs[o].state = "none" /\
                                  \A p \in ObjIds : p < o => objs[p].state # "none"
CanAllocate == \E o \in ObjIds : objs[o].state = "none"

---------------------------------------------------------------------------
(* Inputs *)

TypeNames == {"basicConstraints", "bogusExtensionName"}

\* the int the constructor receives for critical
CriticalArgs == {0, 1}

\* the value strings: "", "CA:TRUE", "critical,CA:TRUE", "critical, CA:TRUE"
Values ==
    {<<>>, S_CA_TRUE, S_critical \o S_CA_TRUE, S_critical \o <<32>> \o S_CA_TRUE}

\* where an allocation of the constructor fails, if one does
AllocFaults == {"none", "PyObject_New", "malloc"}

---------------------------------------------------------------------------
(* Records of the last call *)

IdleNew ==
    [active |-> FALSE, ret |-> NULL, self |-> NULL, type_name |-> "", critical |-> 0,
     value |-> <<>>, size |-> 0, passed |-> FALSE, nconfValue |-> <<>>,
     overflow |-> FALSE, tmp |-> "none", fault |-> "none"]

IdleCrit == [active |-> FALSE, self |-> NULL, isNull |-> TRUE, val |-> 0]

IdleStr ==
    [active |-> FALSE, self |-> NULL, ret |-> "none", text |-> <<>>,
     printers |-> {}, flag |-> -1, indent |-> -1,
     bioNew |-> 0, bioFree |-> 0, namesNew |-> 0, namesFree |-> 0,
     pyOk |-> TRUE, fail |-> {}]

---------------------------------------------------------------------------
(* crypto_X509Extension_New *)

\* the flag of a freshly allocated object: self->dealloc = 0
InitialDealloc == 0

\* a size with no room for the terminating NUL
BufferSize_NoTerminator(value) == strlen(S_critical) + strlen(value)

\* malloc(strlen("critical,") + strlen(value) + 1)
BufferSize(value) == strlen(S_critical) + strlen(value) + 1

\* the two strcpy branches that fill value_with_critical
value_with_critical(critical, value) ==
    LET buf == FreshBuffer(BufferSize(value))
    IN IF critical # 0
       THEN strcpy(strcpy(buf, 0, S_critical), strlen(S_critical), value)
       ELSE strcpy(buf, 0, value)

\* a constructor that does not check the interpreter's result
NconfError_Unchecked(p) == FALSE

\* if (!self->x509_extension) goto nconf_error
NconfError(p) == p = NULL

\* what the constructor computes from its arguments alone: the string it
\* builds, whether building it overran the buffer, the interpreter's answer
Interpreted ==
    [type_name \in TypeNames, critical \in CriticalArgs, value \in Values |->
        LET buf == value_with_critical(critical, value)
            arg == CString(buf)
        IN [arg |-> arg, overflow |-> buf.overflow,
            ext |-> X509V3_EXT_nconf(type_name, arg)]]

crypto_X509Extension_New(type_name, critical, value, fault) ==
    LET self == FreshObj
        call == [IdleNew EXCEPT !.active = TRUE, !.type_name = type_name,
                                !.critical = critical, !.value = value,
                                !.fault = fault]
        half == [state |-> "live", x509_extension |-> UNINIT,
                 dealloc |-> InitialDealloc]
        buf  == Interpreted[type_name, critical, value]
        arg  == buf.arg
        ext  == buf.ext
        sid  == StructOf(self)
        p    == IF ext.ok THEN sid ELSE NULL
        heap1 == IF ext.ok
                 THEN [Heap EXCEPT !.structs[sid] =
                         [state |-> "live", owner |-> "ext", nid |-> ext.nid,
                          critical |-> ext.critical, decodes |-> TRUE,
                          names |-> ext.names, frees |-> 0]]
                 ELSE Heap
        built == [half EXCEPT !.x509_extension = p]
        made == [call EXCEPT !.self = self]
        called == [made EXCEPT !.size = BufferSize(value), !.passed = TRUE,
                               !.nconfValue = arg, !.overflow = buf.overflow,
                               !.tmp = "freed"]
    IN
    IF fault = "PyObject_New"
    THEN \* PyObject_New returned NULL and raised MemoryError: goto error
         /\ newCall' = call
         /\ pyerr' = TRUE
         /\ UNCHANGED <<objs, structs, wildFree>>
    ELSE IF fault = "malloc"
    THEN \* goto critical_malloc_error: Py_XDECREF(self); return NULL
         LET heap2 == crypto_X509Extension_dealloc(half, Heap)
         IN /\ newCall' = made
            /\ pyerr' = FALSE
            /\ objs' = [objs EXCEPT ![self] = DeletedObj]
            /\ structs' = heap2.structs
            /\ wildFree' = heap2.wild
    ELSE IF NconfError(p)
    THEN \* nconf_error: exception_from_error_queue; Py_XDECREF(self)
         LET heap2 == crypto_X509Extension_dealloc(built, heap1)
         IN /\ newCall' = called
            /\ pyerr' = TRUE
            /\ objs' = [objs EXCEPT ![self] = DeletedObj]
            /\ structs' = heap2.structs
            /\ wildFree' = heap2.wild
    ELSE \* self->dealloc = 1; return self
         /\ newCall' = [called EXCEPT !.ret = self]
         /\ pyerr' = FALSE
         /\ objs' = [objs EXCEPT ![self] = [built EXCEPT !.dealloc = 1]]
         /\ structs' = heap1.structs
         /\ wildFree' = heap1.wild

New ==
    /\ CanAllocate
    /\ \E type_name \in TypeNames, critical \in CriticalArgs, value \in Values,
          fault \in AllocFaults :
          crypto_X509Extension_New(type_name, critical, value, fault)
    /\ strCall' = IdleStr
    /\ critCall' = IdleCrit

\* an extension object that borrows a structure of the certificate's
\* extension list: the certificate keeps the structure, the flag stays 0
Extract ==
    /\ CanAllocate
    /\ objs' = [objs EXCEPT ![FreshObj] =
                  [state |-> "live", x509_extension |-> CertStruct, dealloc |-> 0]]
    /\ pyerr' = FALSE
    /\ newCall' = IdleNew
    /\ strCall' = IdleStr
    /\ critCall' = IdleCrit
    /\ UNCHANGED <<structs, wildFree>>

\* the last reference to object o is dropped: tp_dealloc runs
Dealloc(o) ==
    /\ objs[o].state = "live"
    /\ LET heap2 == crypto_X509Extension_dealloc(objs[o], Heap)
       IN /\ structs' = heap2.structs
          /\ wildFree' = heap2.wild
    /\ objs' = [objs EXCEPT ![o] = DeletedObj]
    /\ newCall' = IdleNew
    /\ strCall' = IdleStr
    /\ critCall' = IdleCrit
    /\ UNCHANGED pyerr

\* crypto_X509Extension_get_critical(self, args)
GetCritical(o) ==
    /\ objs[o].state = "live"
    /\ \E argsOk \in BOOLEAN :
         IF ~argsOk
         THEN \* PyArg_ParseTuple rejected the arguments and raised TypeError
              /\ critCall' = [IdleCrit EXCEPT !.active = TRUE, !.self = o]
              /\ pyerr' = TRUE
         ELSE \* PyLong_FromLong(X509_EXTENSION_get_critical(...))
              /\ critCall' =
                   [active |-> TRUE, self |-> o, isNull |-> FALSE,
                    val |-> X509_EXTENSION_get_critical(
                               structs[objs[o].x509_extension])]
              /\ pyerr' = FALSE
    /\ strCall' = IdleStr
    /\ UNCHANGED <<objs, structs, wildFree, newCall>>

---------------------------------------------------------------------------
(* crypto_X509Extension_str *)

\* "DirName:"
S_DirName == <<68, 105, 114, 78, 97, 109, 101, 58>>

\* the memory BIO is the sequence of the bytes written to it; a write that
\* fails (the buffer cannot grow) writes nothing
BIO_puts(bio, s, ok) == IF ok THEN bio \o SubSeq(s, 1, strlen(s)) ELSE bio

BIO_write(bio, data, len, ok) == IF ok THEN bio \o SubSeq(data, 1, len) ELSE bio

ASN1_STRING_data(as) == as.data

\* a length taken up to the first NUL, as strlen would
ASN1_STRING_length_to_nul(as) == Len(UpToNul(as.data))

\* ASN1_STRING_length: the length field of the byte range
ASN1_STRING_length(as) == Len(as.data)

\* GENERAL_NAME_print, the library's printer of one name, for the types the
\* secure formatter leaves to it; it prints NUL-terminated text
GENERAL_NAME_text(name) == S_DirName \o UpToNul(name.data)

GENERAL_NAME_print(bio, name, ok) == BIO_puts(bio, GENERAL_NAME_text(name), ok)

\* the BIO writes of loop iteration i (from 0): the prefix or the library
\* printer is write 3i+1, the name's bytes 3i+2, the separator 3i+3
WritesOf(names, i) ==
    {3 * i + 1}
    \cup (IF names[i + 1].type \in {GEN_EMAIL, GEN_DNS, GEN_URI}
          THEN {3 * i + 2} ELSE {})
    \cup (IF i < Len(names) - 1 THEN {3 * i + 3} ELSE {})

UsedWrites(names) == UNION {WritesOf(names, i) : i \in 0..(Len(names) - 1)}

\* the for loop of crypto_X509Extension_str_subjectAltName from entry i on;
\* fail is the set of writes that fail, and no return value is looked at
RECURSIVE SanLoop(_, _, _, _)
SanLoop(names, i, bio, fail) ==
    IF ~(i < Len(names)) THEN bio
    ELSE
    LET name == names[i + 1]
        num  == Len(names)
        ok(w) == w \notin fail
        b1 == CASE name.type = GEN_EMAIL ->
                     BIO_write(BIO_puts(bio, S_email, ok(3 * i + 1)),
                               ASN1_STRING_data(name), ASN1_STRING_length(name),
                               ok(3 * i + 2))
                [] name.type = GEN_DNS ->
                     BIO_write(BIO_puts(bio, S_DNS, ok(3 * i + 1)),
                               ASN1_STRING_data(name), ASN1_STRING_length(name),
                               ok(3 * i + 2))
                [] name.type = GEN_URI ->
                     BIO_write(BIO_puts(bio, S_URI, ok(3 * i + 1)),
                               ASN1_STRING_data(name), ASN1_STRING_length(name),
                               ok(3 * i + 2))
                [] OTHER -> GENERAL_NAME_print(bio, name, ok(3 * i + 1))
        b2 == IF i < num - 1 THEN BIO_puts(b1, S_sep, ok(3 * i + 3)) ELSE b1
    IN SanLoop(names, i + 1, b2, fail)

\* a formatter that never frees the decoded name list
str_subjectAltName_keeps_names(ext, bio, fail) ==
    IF ~HasMethod(ext.nid) \/ ~ext.decodes
    THEN [rc |-> -1, bio |-> bio, namesNew |-> 0, namesFree |-> 0]
    ELSE [rc |-> 0, bio |-> SanLoop(ext.names, 0, bio, fail),
          namesNew |-> 1, namesFree |-> 0]

\* crypto_X509Extension_str_subjectAltName(self, bio): the return code, the
\* buffer, and the decoded name lists created and freed
crypto_X509Extension_str_subjectAltName(ext, bio, fail) ==
    IF ~HasMethod(ext.nid)
    THEN \* method == NULL
         [rc |-> -1, bio |-> bio, namesNew |-> 0, namesFree |-> 0]
    ELSE IF ~ext.decodes
    THEN \* names == NULL
         [rc |-> -1, bio |-> bio, namesNew |-> 0, namesFree |-> 0]
    ELSE \* the loop, then sk_GENERAL_NAME_pop_free(names, GENERAL_NAME_free)
         [rc |-> 0, bio |-> SanLoop(ext.names, 0, bio, fail),
          namesNew |-> 1, namesFree |-> 1]

\* the library's text of a whole general-name list, NUL-terminated printing
RECURSIVE GenericNames(_)
GenericNames(names) ==
    IF names = <<>> THEN <<>>
    ELSE LET n == Head(names)
             t == CASE n.type = GEN_EMAIL -> S_email \o UpToNul(n.data)
                    [] n.type = GEN_DNS -> S_DNS \o UpToNul(n.data)
                    [] n.type = GEN_URI -> S_URI \o UpToNul(n.data)
                    [] OTHER -> GENERAL_NAME_text(n)
         IN t \o (IF Tail(names) = <<>> THEN <<>> ELSE S_sep)
              \o GenericNames(Tail(names))

\* X509V3_EXT_print(bio, ext, flag, indent): with flag 0 it fails when the
\* OID has no descriptor or the payload does not decode
X509V3_EXT_print(bio, ext, flag, indent) ==
    IF ~HasMethod(ext.nid) \/ ~ext.decodes
    THEN [ok |-> flag # 0, bio |-> bio]
    ELSE [ok |-> TRUE,
          bio |-> bio \o [i \in 1..indent |-> 32]
                      \o (IF ext.nid = NID_basic_constraints
                          THEN S_CA_TRUE ELSE GenericNames(ext.names))]

\* a dispatch that always takes the generic printer
UsesSanFormatter_never(ext) == FALSE

\* OBJ_obj2nid(self->x509_extension->object) == NID_subject_alt_name
UsesSanFormatter(ext) == ext.nid = NID_subject_alt_name

crypto_X509Extension_str(o, fail, pyOk) ==
    LET ext  == structs[objs[o].x509_extension]
        bio0 == <<>>
        call == [IdleStr EXCEPT !.active = TRUE, !.self = o, !.bioNew = 1,
                                !.fail = fail, !.pyOk = pyOk]
        san  == crypto_X509Extension_str_subjectAltName(ext, bio0, fail)
        flag == 0
        indent == 0
        gen  == X509V3_EXT_print(bio0, ext, flag, indent)
        viaSan == UsesSanFormatter(ext)
        c1   == IF viaSan
                THEN [call EXCEPT !.printers = {"subjectAltName"},
                                  !.namesNew = san.namesNew,
                                  !.namesFree = san.namesFree]
                ELSE [call EXCEPT !.printers = {"X509V3_EXT_print"},
                                  !.flag = flag, !.indent = indent]
        failed == IF viaSan THEN san.rc = -1 ELSE ~gen.ok
        bio  == IF viaSan THEN san.bio ELSE gen.bio
        str_len == Len(bio)
    IN
    IF failed
    THEN \* BIO_free(bio); exception_from_error_queue; return NULL
         /\ strCall' = [c1 EXCEPT !.ret = "NULL", !.bioFree = 1]
         /\ pyerr' = TRUE
    ELSE IF ~pyOk
    THEN \* PyText_FromStringAndSize returned NULL with its error set
         /\ strCall' = [c1 EXCEPT !.ret = "NULL", !.bioFree = 1]
         /\ pyerr' = TRUE
    ELSE \* str = PyText_FromStringAndSize(tmp_str, str_len); BIO_free(bio)
         /\ strCall' = [c1 EXCEPT !.ret = "str", !.bioFree = 1,
                                  !.text = SubSeq(bio, 1, str_len)]
         /\ pyerr' = FALSE

FaultSets(ext) ==
    LET used == IF ext.nid = NID_subject_alt_name /\ ext.decodes
                THEN UsedWrites(ext.names) ELSE {}
    IN {f \in SUBSET used : Cardinality(f) <= MaxFaults}

Str(o) ==
    /\ objs[o].state = "live"
    /\ \E fail \in FaultSets(structs[objs[o].x509_extension]), pyOk \in BOOLEAN :
          crypto_X509Extension_str(o, fail, pyOk)
    /\ newCall' = IdleNew
    /\ critCall' = IdleCrit
    /\ UNCHANGED <<objs, structs, wildFree>>

---------------------------------------------------------------------------
(* Extensions a parsed certificate can carry *)

NulName == <<97, 0, 98>>

GeneralNames ==
    {[type |-> t, data |-> NulName] : t \in {GEN_EMAIL, GEN_DNS, GEN_URI}}
    \cup {[type |-> GEN_DIRNAME, data |-> <<97>>]}

NameLists(n) == UNION {[1..k -> GeneralNames] : k \in 0..n}

SanExt(names) ==
    [state |-> "live", owner |-> "cert", nid |-> NID_subject_alt_name,
     critical |-> 0, decodes |-> TRUE, names |-> names, frees |-> 0]

OtherExts ==
    {[SanExt(<<>>) EXCEPT !.decodes = FALSE],
     [SanExt(<<>>) EXCEPT !.nid = NID_basic_constraints, !.critical = 1],
     [SanExt(<<>>) EXCEPT !.nid = NID_undef]}

CertExts ==
    {SanExt(<<[type |-> GEN_DNS, data |-> NulName]>>),
     [SanExt(<<>>) EXCEPT !.nid = NID_undef]}

FormatExts == {SanExt(n) : n \in NameLists(MaxNames)} \cup OtherExts

---------------------------------------------------------------------------
(* The object's life: construction, extraction, use, destruction *)

Init ==
    /\ objs = [o \in ObjIds |-> NoObj]
    /\ \E e \in CertExts :
         structs = [s \in StructIds |-> IF s = CertStruct THEN e ELSE NoStruct]
    /\ wildFree = FALSE
    /\ pyerr = FALSE
    /\ newCall = IdleNew
    /\ strCall = IdleStr
    /\ critCall = IdleCrit

Next ==
    \/ New
    \/ Extract
    \/ \E o \in ObjIds : Dealloc(o)
    \/ \E o \in ObjIds : GetCritical(o)
    \/ \E o \in ObjIds : Str(o)

Spec == Init /\ [][Next]_vars

(* Formatting alone: one extension object extracted from a certificate     *)
(* whose extension is drawn from FormatExts                                *)

FormatInit ==
    /\ objs = [o \in ObjIds |->
                 IF o = 1
                 THEN [state |-> "live", x509_extension |-> CertStruct, dealloc |-> 0]
                 ELSE DeletedObj]
    /\ \E e \in FormatExts :
         structs = [s \in StructIds |-> IF s = CertStruct THEN e ELSE NoStruct]
    /\ wildFree = FALSE
    /\ pyerr = FALSE
    /\ newCall = IdleNew
    /\ strCall = IdleStr
    /\ critCall = IdleCrit

FormatNext ==
    \/ \E o \in ObjIds : Str(o)
    \/ \E o \in ObjIds : Dealloc(o)

FormatSpec == FormatInit /\ [][FormatNext]_vars

---------------------------------------------------------------------------
(* Properties *)

\* the encoded structure the object of a call points to
ExtOf(o) == structs[objs[o].x509_extension]

IsSan(ext) == ext.nid = NID_subject_alt_name /\ HasMethod(ext.nid) /\ ext.decodes

Contains(t, s) ==
    \E k \in 0..(Len(t) - Len(s)) : SubSeq(t, k + 1, k + Len(s)) = s

\* the text of one entry and of a whole list, as the specification gives it
Rendering(n) ==
    CASE n.type = GEN_EMAIL -> S_email \o n.data
      [] n.type = GEN_DNS -> S_DNS \o n.data
      [] n.type = GEN_URI -> S_URI \o n.data
      [] OTHER -> GENERAL_NAME_text(n)

RECURSIVE JoinNames(_)
JoinNames(names) ==
    IF names = <<>> THEN <<>>
    ELSE Rendering(Head(names))
         \o (IF Tail(names) = <<>> THEN <<>> ELSE S_sep \o JoinNames(Tail(names)))

Returned(call) == call.active /\ call.ret = "str"

\* C1: get_critical on an extension that crypto_X509Extension_New returned
\* equals the critical argument of that construction (nonzero gives 1, zero
\* gives 0), whatever the value string was.
C1_CriticalFidelity ==
    (/\ newCall.active /\ newCall.ret # NULL
     /\ critCall.active /\ ~critCall.isNull /\ critCall.self = newCall.ret)
    => critCall.val = (IF newCall.critical # 0 THEN 1 ELSE 0)

\* C2: the text returned for a subjectAltName extension contains, for every
\* email, DNS or URI entry, its prefix followed by all the bytes of its name,
\* the bytes after an embedded NUL included.
C2_FullNameBytes ==
    (Returned(strCall) /\ IsSan(ExtOf(strCall.self)))
    => \A i \in 1..Len(ExtOf(strCall.self).names) :
          LET n == ExtOf(strCall.self).names[i]
          IN n.type \in {GEN_EMAIL, GEN_DNS, GEN_URI}
             => Contains(strCall.text, Rendering(n))

\* The same with every write to the buffer succeeding.
FullNameBytesWhenWritesSucceed ==
    (Returned(strCall) /\ IsSan(ExtOf(strCall.self)) /\ strCall.fail = {})
    => \A i \in 1..Len(ExtOf(strCall.self).names) :
          LET n == ExtOf(strCall.self).names[i]
          IN n.type \in {GEN_EMAIL, GEN_DNS, GEN_URI}
             => Contains(strCall.text, Rendering(n))

\* C3: the text returned for a subjectAltName extension of n entries is the
\* renderings of the entries in decoded order with ", " between successive
\* entries and nowhere else.
C3_OrderedJoin ==
    (Returned(strCall) /\ IsSan(ExtOf(strCall.self)))
    => strCall.text = JoinNames(ExtOf(strCall.self).names)

\* The same with every write to the buffer succeeding.
OrderedJoinWhenWritesSucceed ==
    (Returned(strCall) /\ IsSan(ExtOf(strCall.self)) /\ strCall.fail = {})
    => strCall.text = JoinNames(ExtOf(strCall.self).names)

\* C4: whenever crypto_X509Extension_New or crypto_X509Extension_str returns
\* NULL, an error has been raised for the caller.
C4_FailureRaises ==
    /\ (newCall.active /\ newCall.ret = NULL /\ ~critCall.active) => pyerr
    /\ (strCall.active /\ strCall.ret = "NULL") => pyerr

\* C5: crypto_X509Extension_New returns either an object that owns a live
\* encoded structure (dealloc = 1), or NULL with the half-built object
\* released, the temporary string not left allocated and no encoded
\* structure of the call left allocated.
C5_AtomicConstruction ==
    newCall.active =>
       IF newCall.ret # NULL
       THEN /\ objs[newCall.ret].state = "live"
            /\ objs[newCall.ret].dealloc = 1
            /\ objs[newCall.ret].x509_extension \in StructIds
            /\ ExtOf(newCall.ret).state = "live"
            /\ ExtOf(newCall.ret).owner = "ext"
            /\ newCall.tmp = "freed"
       ELSE /\ newCall.tmp # "live"
            /\ newCall.self # NULL =>
                  /\ objs[newCall.self].state = "deleted"
                  /\ structs[StructOf(newCall.self)].state # "live"

\* a construction that the interpreter refused
C5_Witness ==
    newCall.active /\ newCall.ret = NULL /\ newCall.passed /\ newCall.self # NULL

\* C6: a structure is released exactly when the object destroyed owns it: a
\* constructed extension's structure is released once, when its object is
\* destroyed; the certificate's structure is never released by a borrowing
\* object; a failed construction releases nothing; nothing is released
\* twice, and nothing that is not a live structure is released.
C6_ReleaseIffOwned ==
    /\ ~wildFree
    /\ structs[CertStruct].state = "live" /\ structs[CertStruct].frees = 0
    /\ \A o \in ObjIds :
          LET s == structs[StructOf(o)]
          IN /\ s.frees <= 1
             /\ s.state = "freed" <=> (s.frees = 1 /\ objs[o].state = "deleted")
             /\ s.state = "live" <=>
                   (/\ objs[o].state = "live" /\ objs[o].dealloc = 1
                    /\ objs[o].x509_extension = StructOf(o))
             /\ (objs[o].state = "live" /\ objs[o].dealloc = 0)
                   => objs[o].x509_extension = CertStruct

\* one object destroyed with its own structure released once, another
\* destroyed without any release, the certificate's structure intact
C6_Witness ==
    \E o, q \in ObjIds :
       /\ structs[StructOf(o)].frees = 1
       /\ objs[q].state = "deleted" /\ structs[StructOf(q)].state = "unalloc"
       /\ structs[CertStruct].state = "live"

\* what goes wrong in one crypto_X509Extension_str call
FormatFailure(call) ==
    \/ ~HasMethod(ExtOf(call.self).nid)
    \/ ~ExtOf(call.self).decodes
    \/ call.fail # {}
    \/ ~call.pyOk

\* C7: on any failure while formatting, crypto_X509Extension_str returns an
\* error and no string; it never returns partial text.
C7_NoPartialText ==
    (strCall.active /\ FormatFailure(strCall))
    => (strCall.ret = "NULL" /\ strCall.text = <<>> /\ pyerr)

\* C8: on every exit of crypto_X509Extension_str the output buffer has been
\* freed exactly once, and the decoded name list, when decoding produced
\* one, has been freed exactly once.
C8_TemporariesReleased ==
    strCall.active =>
       /\ strCall.bioNew = 1 /\ strCall.bioFree = 1
       /\ strCall.namesNew = (IF IsSan(ExtOf(strCall.self)) THEN 1 ELSE 0)
       /\ strCall.namesFree = strCall.namesNew

\* an error exit after the name list was decoded
C8_Witness ==
    strCall.active /\ strCall.ret = "NULL" /\ strCall.namesNew = 1

\* C9: crypto_X509Extension_str uses the subjectAltName formatter exactly
\* when the OID is subjectAltName, and X509V3_EXT_print with flag 0 and
\* indent 0 otherwise; never both, not even after the first failed.
C9_Dispatch ==
    strCall.active =>
       IF ExtOf(strCall.self).nid = NID_subject_alt_name
       THEN strCall.printers = {"subjectAltName"}
       ELSE /\ strCall.printers = {"X509V3_EXT_print"}
            /\ strCall.flag = 0 /\ strCall.indent = 0

\* the subjectAltName formatter failed, and the call did
C9_Witness ==
    /\ strCall.active /\ strCall.ret = "NULL"
    /\ ExtOf(strCall.self).nid = NID_subject_alt_name
    /\ ~ExtOf(strCall.self).decodes

\* C10: the string handed to the interpreter is "critical," followed by
\* value when critical is nonzero and value itself when it is zero, and the
\* buffer of strlen("critical,") + strlen(value) + 1 bytes holds it with its
\* terminator.
C10_InterpreterArgument ==
    (newCall.active /\ newCall.passed) =>
       /\ newCall.nconfValue =
             (IF newCall.critical # 0 THEN S_critical \o newCall.value
              ELSE newCall.value)
       /\ newCall.size >= Len(newCall.nconfValue) + 1
       /\ ~newCall.overflow

\* the empty value with critical set
C10_Witness ==
    /\ newCall.active /\ newCall.passed
    /\ newCall.critical # 0 /\ newCall.value = <<>>
    /\ newCall.nconfValue = S_critical

===========================================================================
